---- MODULE Spec2Model ----
(***************************************************************************)
(* Campaign progression state machine of StarfoxMenuSystem.jsx and its     *)
(* IndexedDB persistence layer.                                            *)
(*                                                                         *)
(* JavaScript objects are modelled as functions from field names to        *)
(* values, so that a missing field, an extra field and the object spread   *)
(* {...a, ...b} keep their meaning.  The absent value (null / undefined)   *)
(* is the distinguished object Null.                                       *)
(***************************************************************************)
EXTENDS Integers, Sequences, FiniteSets, Bags, TLC

\* ------------------------------------------------------------------------
\* Bounds of the exploration
\* ------------------------------------------------------------------------
\* longest completedLevels array explored: one more than the longest path of
\* the campaign
MaxPath == 6
\* largest completedRuns counter explored
MaxRuns == 1
\* largest number of store operations in flight at the same time
MaxPending == 2
\* largest number of page reloads, store faults, unsolicited level reports
\* and overlapping store operations
MaxDisturb == 1
\* longest completedLevels array of a record found in the store at start-up
MaxSavedPath == 3
\* largest completedRuns of a record found in the store at start-up
MaxSavedRuns == 6

\* ------------------------------------------------------------------------
\* Values
\* ------------------------------------------------------------------------
Null == [null |-> TRUE]

\* {...a, ...b}: the fields of b win over those of a
Spread(a, b) ==
  [f \in (DOMAIN a) \cup (DOMAIN b) |-> IF f \in DOMAIN b THEN b[f] ELSE a[f]]

\* a fallback that ignores the object: the default is always taken
OrDefaultIgnoresObject(obj, field, dflt) == dflt

\* obj?.field || dflt, for the fields whose values are never falsy when present
\* except for the default itself (0 for a number)
OrDefault(obj, field, dflt) ==
  IF obj # Null /\ field \in DOMAIN obj THEN obj[field] ELSE dflt

Range(s) == {s[i] : i \in 1..Len(s)}

\* Array.prototype.filter with the predicate "is a member of keep"
RECURSIVE FilterSeq(_, _)
FilterSeq(s, keep) ==
  IF s = <<>> THEN <<>>
  ELSE IF Head(s) \in keep THEN <<Head(s)>> \o FilterSeq(Tail(s), keep)
       ELSE FilterSeq(Tail(s), keep)

\* ------------------------------------------------------------------------
\* CAMPAIGN_DATA, WINGMEN_DATA
\* ------------------------------------------------------------------------
Levels == {"1", "2a", "2b", "3", "4a", "4b", "5"}

\* the final mission leads back to the entry mission
nextChoicesWithLoop(l) ==
  CASE l = "1"  -> <<"2a", "2b">>
    [] l = "2a" -> <<"3">>
    [] l = "2b" -> <<"3">>
    [] l = "3"  -> <<"4a", "4b">>
    [] l = "4a" -> <<"5">>
    [] l = "4b" -> <<"5">>
    [] l = "5"  -> <<"1">>

nextChoices(l) ==
  CASE l = "1"  -> <<"2a", "2b">>
    [] l = "2a" -> <<"3">>
    [] l = "2b" -> <<"3">>
    [] l = "3"  -> <<"4a", "4b">>
    [] l = "4a" -> <<"5">>
    [] l = "4b" -> <<"5">>
    [] l = "5"  -> <<>>

isFinal(l) == l = "5"

\* the path from '4b' to '5' is not drawn
connectionsWithoutLastPath ==
  <<[from |-> "1", to |-> "2a"], [from |-> "1", to |-> "2b"],
    [from |-> "2a", to |-> "3"], [from |-> "2b", to |-> "3"],
    [from |-> "3", to |-> "4a"], [from |-> "3", to |-> "4b"],
    [from |-> "4a", to |-> "5"]>>

\* CAMPAIGN_DATA.connections, the paths drawn on the campaign map
connections ==
  <<[from |-> "1", to |-> "2a"], [from |-> "1", to |-> "2b"],
    [from |-> "2a", to |-> "3"], [from |-> "2b", to |-> "3"],
    [from |-> "3", to |-> "4a"], [from |-> "3", to |-> "4b"],
    [from |-> "4a", to |-> "5"], [from |-> "4b", to |-> "5"]>>

Wingmen == {"falco", "peppy", "slippy"}

\* maxSelections={2} of the wingman screen
maxSelections == 2

\* the options object, reduced to its difficulty field
DefaultOptions == [difficulty |-> "normal"]
OptionValues == {[difficulty |-> "normal"], [difficulty |-> "hard"]}

\* outcomes the gameplay engine reports
Outcomes == {[completed |-> FALSE, score |-> 500],
             [completed |-> TRUE, score |-> 1000]}

\* ------------------------------------------------------------------------
\* The object store 'gameProgress' (keyPath 'id')
\* ------------------------------------------------------------------------
Keys == {"currentProgress", "slot2"}
EmptyStore == [k \in Keys |-> Null]

\* store.put({ id: 'currentProgress', ...progress })
PutObject(progress) == Spread([id |-> "currentProgress"], progress)
StorePut(st, progress) ==
  LET obj == PutObject(progress) IN [st EXCEPT ![obj.id] = obj]
\* store.get('currentProgress'), request.result || null
StoreGet(st) == st["currentProgress"]
\* store.delete('currentProgress')
StoreDelete(st) == [st EXCEPT !["currentProgress"] = Null]

VARIABLES
  screen,            \* useState('loading')
  gameProgress,      \* useState(null)
  options,           \* useState({...})
  selectedWingmen,   \* useState([])
  currentLevel,      \* useState('1')
  completedLevels,   \* useState([])
  totalScore,        \* useState(0)
  lastResults,       \* useState(null)
  levelInProgress,   \* prop set by the host application
  runningLevel,      \* what the host was asked to run by onStartLevel
  store,             \* the IndexedDB object store
  pending,           \* bag of store operations in flight
  completions,       \* number of acknowledged victories on the final mission
  disturbances,      \* number of reloads, store faults and unsolicited reports
  lastIssued,        \* the write started last among those in flight together
  resetFor           \* completions at the last completed New Game+ reset

vars == <<screen, gameProgress, options, selectedWingmen, currentLevel,
          completedLevels, totalScore, lastResults, levelInProgress,
          runningLevel, store, pending, completions, disturbances, lastIssued,
          resetFor>>

runVars == <<selectedWingmen, currentLevel, completedLevels, totalScore>>

LoadOp == [kind |-> "load"]
ClearOp == [kind |-> "clear"]
SaveOp(progress, by) == [kind |-> "save", progress |-> progress, by |-> by]

PendingOps == BagToSet(pending)
SaveOps == {op \in PendingOps : op.kind = "save"}
Issue(op) == pending (+) SetToBag({op})
Settle(op) == pending (-) SetToBag({op})
\* the write started last, once the writes in flight with it have settled
\* or once the store has been cleared, is no longer followed
Followed(bag, tracked) ==
  IF \A op \in BagToSet(bag) : op.kind # "save" THEN Null ELSE tracked
\* a reload, a store fault or an unsolicited report uses up one disturbance
Disturb == disturbances < MaxDisturb /\ disturbances' = disturbances + 1

\* a store operation started while another one is in flight is an overlap,
\* which uses up one disturbance
CanIssue ==
  IF pending = EmptyBag THEN UNCHANGED disturbances
  ELSE BagCardinality(pending) < MaxPending /\ Disturb

\* gameProgress?.completedRuns || 0
completedRuns == OrDefault(gameProgress, "completedRuns", 0)

\* !!gameProgress?.selectedWingmen?.length
hasSaveData == Len(OrDefault(gameProgress, "selectedWingmen", <<>>)) > 0

\* NEW_GAME_PLUS_UNLOCKS, by tier
UnlockTiers == 1..5

\* GameCompleteScreen: Object.entries(NEW_GAME_PLUS_UNLOCKS), in ascending
\* order of the integer keys, filtered by parseInt(level) <= newGamePlusLevel
unlocks(level) ==
  [i \in 1..Cardinality({t \in UnlockTiers : t <= level}) |-> i]

\* a policy that starts over after the last configured tier
newUnlockCyclic(level) ==
  IF level >= 1 THEN <<((level - 1) % Cardinality(UnlockTiers)) + 1>>
                ELSE <<>>

\* GameCompleteScreen: NEW_GAME_PLUS_UNLOCKS[newGamePlusLevel], as the
\* sequence of the tiers found under that key: one tier, or none (undefined)
newUnlock(level) == IF level \in UnlockTiers THEN <<level>> ELSE <<>>

\* newGamePlusLevel={gameProgress?.completedRuns || 1}
newGamePlusLevel == IF completedRuns # 0 THEN completedRuns ELSE 1

\* the menu renders nothing while a level is in progress
Rendered == ~levelInProgress /\ screen # "playing"

Init ==
  /\ screen = "loading"
  /\ gameProgress = Null
  /\ options = DefaultOptions
  /\ selectedWingmen = <<>>
  /\ currentLevel = "1"
  /\ completedLevels = <<>>
  /\ totalScore = 0
  /\ lastResults = Null
  /\ levelInProgress = FALSE
  /\ runningLevel = Null
  /\ store = EmptyStore
  /\ pending = SetToBag({LoadOp})
  /\ completions = 0
  /\ disturbances = 0
  /\ lastIssued = Null
  /\ resetFor = 0

\* ------------------------------------------------------------------------
\* Mount effect: loadProgress
\* ------------------------------------------------------------------------
LoadDone ==
  /\ LoadOp \in PendingOps
  /\ LET saved == StoreGet(store) IN
       /\ gameProgress' = IF saved # Null THEN saved ELSE gameProgress
       /\ options' = IF saved # Null /\ "options" \in DOMAIN saved
                     THEN saved.options ELSE options
  /\ screen' = "mainMenu"
  /\ pending' = Settle(LoadOp)
  /\ UNCHANGED <<runVars, lastResults, levelInProgress, store, completions,
                 disturbances, lastIssued, resetFor, runningLevel>>

\* the catch branch without its setScreen('mainMenu')
LoadFailStaysLoading ==
  /\ LoadOp \in PendingOps
  /\ Disturb
  /\ pending' = Settle(LoadOp)
  /\ UNCHANGED <<screen, gameProgress, options, runVars, lastResults,
                 levelInProgress, store, completions, lastIssued, resetFor,
                 runningLevel>>

LoadFail ==
  /\ LoadOp \in PendingOps
  /\ Disturb
  /\ screen' = "mainMenu"
  /\ pending' = Settle(LoadOp)
  /\ UNCHANGED <<gameProgress, options, runVars, lastResults, levelInProgress,
                 store, completions, lastIssued, resetFor, runningLevel>>

\* ------------------------------------------------------------------------
\* saveProgress
\* ------------------------------------------------------------------------
Snapshot(updates) ==
  Spread([options |-> options,
          currentLevel |-> currentLevel,
          completedLevels |-> completedLevels,
          selectedWingmen |-> selectedWingmen,
          totalScore |-> totalScore,
          completedRuns |-> completedRuns], updates)

\* the synchronous part of saveProgress: build the snapshot, start the write
saveProgress(updates, by) ==
  /\ CanIssue
  /\ pending' = Issue(SaveOp(Snapshot(updates), by))
  /\ lastIssued' = [op |-> SaveOp(Snapshot(updates), by), done |-> FALSE]

\* await saveGameProgress(progress) resolved; setGameProgress(progress)
SaveDone(op) ==
  /\ op \in SaveOps
  /\ store' = StorePut(store, op.progress)
  /\ gameProgress' = op.progress
  /\ pending' = Settle(op)
  /\ lastIssued' = Followed(Settle(op),
                            IF lastIssued # Null /\ lastIssued.op = op
                            THEN [lastIssued EXCEPT !.done = TRUE]
                            ELSE lastIssued)
  /\ UNCHANGED <<screen, options, runVars, lastResults, levelInProgress,
                 completions, disturbances, resetFor, runningLevel>>

\* await saveGameProgress(progress) rejected; console.error
SaveFail(op) ==
  /\ op \in SaveOps
  /\ Disturb
  /\ pending' = Settle(op)
  /\ lastIssued' = Followed(Settle(op), lastIssued)
  /\ UNCHANGED <<screen, gameProgress, options, runVars, lastResults,
                 levelInProgress, store, completions, resetFor, runningLevel>>

\* ------------------------------------------------------------------------
\* External level results effect (props externalLevelResults, levelInProgress)
\* ------------------------------------------------------------------------
\* the host ends the level and passes a new results object
HostLevelComplete(outcome) ==
  /\ IF levelInProgress THEN UNCHANGED disturbances ELSE Disturb
  /\ levelInProgress' = FALSE
  /\ runningLevel' = Null
  /\ lastResults' = outcome
  /\ screen' = "results"
  /\ UNCHANGED <<gameProgress, options, runVars, store, pending, completions,
                 lastIssued, resetFor>>

\* ------------------------------------------------------------------------
\* Screen handlers
\* ------------------------------------------------------------------------
\* the score of the previous run is carried into the new one
handleNewGameKeepsScore ==
  /\ selectedWingmen' = <<>>
  /\ currentLevel' = "1"
  /\ completedLevels' = <<>>
  /\ screen' = "wingmanChoice"
  /\ UNCHANGED <<gameProgress, options, totalScore, lastResults,
                 levelInProgress, store, pending, completions, disturbances,
                 lastIssued, resetFor, runningLevel>>

handleNewGame ==
  /\ selectedWingmen' = <<>>
  /\ currentLevel' = "1"
  /\ completedLevels' = <<>>
  /\ totalScore' = 0
  /\ screen' = "wingmanChoice"
  /\ UNCHANGED <<gameProgress, options, lastResults, levelInProgress, store,
                 pending, completions, disturbances, lastIssued, resetFor,
                 runningLevel>>

\* the two tests in the wrong order: the squad is looked at first
ContinueScreenSquadFirst(progress) ==
  IF Len(OrDefault(progress, "selectedWingmen", <<>>)) > 0 THEN "mission"
  ELSE IF Len(OrDefault(progress, "completedLevels", <<>>)) > 0
       THEN "campaignChoice"
  ELSE "wingmanChoice"

\* Determine which screen to show based on progress
ContinueScreen(progress) ==
  IF Len(OrDefault(progress, "completedLevels", <<>>)) > 0 THEN "campaignChoice"
  ELSE IF Len(OrDefault(progress, "selectedWingmen", <<>>)) > 0 THEN "mission"
  ELSE "wingmanChoice"

\* the handler without its test of gameProgress
handleContinueWithoutRecord ==
  /\ selectedWingmen' = OrDefault(gameProgress, "selectedWingmen", <<>>)
  /\ currentLevel' = OrDefault(gameProgress, "currentLevel", "1")
  /\ completedLevels' = OrDefault(gameProgress, "completedLevels", <<>>)
  /\ totalScore' = OrDefault(gameProgress, "totalScore", 0)
  /\ screen' = ContinueScreen(gameProgress)
  /\ UNCHANGED <<gameProgress, options, lastResults, levelInProgress, store,
                 pending, completions, disturbances, lastIssued, resetFor,
                 runningLevel>>

handleContinue ==
  IF gameProgress # Null
  THEN
    /\ selectedWingmen' = OrDefault(gameProgress, "selectedWingmen", <<>>)
    /\ currentLevel' = OrDefault(gameProgress, "currentLevel", "1")
    /\ completedLevels' = OrDefault(gameProgress, "completedLevels", <<>>)
    /\ totalScore' = OrDefault(gameProgress, "totalScore", 0)
    /\ screen' = ContinueScreen(gameProgress)
    /\ UNCHANGED <<gameProgress, options, lastResults, levelInProgress, store,
                   pending, completions, disturbances, lastIssued, resetFor,
                   runningLevel>>
  ELSE \* if (gameProgress) is false: nothing is done
    UNCHANGED vars

\* WingmanChoiceScreen.handleToggle
Toggled(selected, wingmanId) ==
  IF wingmanId \in Range(selected)
  THEN FilterSeq(selected, Wingmen \ {wingmanId})
  ELSE IF Len(selected) < maxSelections THEN Append(selected, wingmanId)
  ELSE selected

handleToggle(wingmanId) ==
  /\ selectedWingmen' = Toggled(selectedWingmen, wingmanId)
  /\ UNCHANGED <<screen, gameProgress, options, currentLevel, completedLevels,
                 totalScore, lastResults, levelInProgress, store, pending,
                 completions, disturbances, lastIssued, resetFor,
                 runningLevel>>

handleWingmenConfirm ==
  /\ saveProgress([selectedWingmen |-> selectedWingmen], "confirm")
  /\ screen' = "mission"
  /\ UNCHANGED <<gameProgress, options, runVars, lastResults, levelInProgress,
                 store, completions, resetFor, runningLevel>>

\* onStartLevel(currentLevel, {wingmen, options, completedLevels}); the host
\* answers with setLevelInProgress(true)
handleStartMission ==
  /\ levelInProgress' = TRUE
  /\ runningLevel' = [levelId |-> currentLevel,
                      wingmen |-> selectedWingmen,
                      options |-> options,
                      completedLevels |-> completedLevels]
  /\ screen' = "playing"
  /\ UNCHANGED <<gameProgress, options, runVars, lastResults, store, pending,
                 completions, disturbances, lastIssued, resetFor>>

\* the score of the outcome is counted twice
resultScoreDoubled == 2 * OrDefault(lastResults, "score", 0)

\* lastResults?.score || 0
resultScore == OrDefault(lastResults, "score", 0)
\* the victory flag is not looked at: every outcome counts as a victory
resultCompletedIgnored == TRUE

\* lastResults?.completed
resultCompleted == OrDefault(lastResults, "completed", FALSE)

newCompletedLevels == Append(completedLevels, currentLevel)
\* the score of the outcome is not added
newTotalScoreDropped == totalScore

newTotalScore == totalScore + resultScore

handleResultsContinue ==
  IF ~resultCompleted
  THEN \* Retry level
    /\ screen' = "mission"
    /\ UNCHANGED <<gameProgress, options, runVars, lastResults,
                   levelInProgress, store, pending, completions, disturbances,
                   lastIssued, resetFor, runningLevel>>
  ELSE
    /\ Len(completedLevels) < MaxPath
    /\ completedLevels' = newCompletedLevels
    /\ totalScore' = newTotalScore
    /\ IF isFinal(currentLevel)
       THEN /\ completions < MaxRuns
            /\ saveProgress([completedLevels |-> newCompletedLevels,
                             totalScore |-> newTotalScore,
                             completedRuns |-> completedRuns + 1,
                             currentLevel |-> "1"], "final")
            /\ screen' = "gameComplete"
            /\ completions' = completions + 1
       ELSE /\ saveProgress([completedLevels |-> newCompletedLevels,
                             totalScore |-> newTotalScore], "victory")
            /\ screen' = "campaignChoice"
            /\ UNCHANGED completions
    /\ UNCHANGED <<gameProgress, options, selectedWingmen, currentLevel,
                   lastResults, levelInProgress, store, disturbances,
                   resetFor, runningLevel>>

\* the choices of the last completed mission, whether completed or not
getAvailableChoicesUnfiltered ==
  IF Len(completedLevels) = 0 THEN <<"1">>
  ELSE nextChoices(completedLevels[Len(completedLevels)])

getAvailableChoices ==
  IF Len(completedLevels) = 0 THEN <<"1">>
  ELSE LET lastCompleted == completedLevels[Len(completedLevels)] IN
       IF lastCompleted \notin Levels THEN <<>>
       ELSE FilterSeq(nextChoices(lastCompleted), Levels \ Range(completedLevels))

handleLevelSelect(levelId) ==
  /\ currentLevel' = levelId
  /\ saveProgress([currentLevel |-> levelId], "select")
  /\ screen' = "mission"
  /\ UNCHANGED <<gameProgress, options, selectedWingmen, completedLevels,
                 totalScore, lastResults, levelInProgress, store, completions,
                 resetFor, runningLevel>>

\* handleNewGamePlus up to its suspension point: await clearGameProgress()
handleNewGamePlus ==
  /\ CanIssue
  /\ pending' = Issue(ClearOp)
  /\ UNCHANGED <<screen, gameProgress, options, runVars, lastResults,
                 levelInProgress, store, completions, lastIssued, resetFor,
                 runningLevel>>

\* clearGameProgress resolved: the rest of handleNewGamePlus runs
ClearDone ==
  /\ ClearOp \in PendingOps
  /\ store' = StoreDelete(store)
  /\ pending' = Settle(ClearOp)
  /\ lastIssued' = Null
  /\ resetFor' = completions
  /\ selectedWingmen' = <<>>
  /\ currentLevel' = "1"
  /\ completedLevels' = <<>>
  /\ totalScore' = 0
  /\ screen' = "wingmanChoice"
  /\ UNCHANGED <<gameProgress, options, lastResults, levelInProgress,
                 completions, disturbances, runningLevel>>

\* clearGameProgress rejected: handleNewGamePlus ends with the rejection
ClearFail ==
  /\ ClearOp \in PendingOps
  /\ Disturb
  /\ pending' = Settle(ClearOp)
  /\ UNCHANGED <<screen, gameProgress, options, runVars, lastResults,
                 levelInProgress, store, completions, lastIssued, resetFor,
                 runningLevel>>

handleMainMenu ==
  /\ screen' = "mainMenu"
  /\ UNCHANGED <<gameProgress, options, runVars, lastResults, levelInProgress,
                 store, pending, completions, disturbances, lastIssued,
                 resetFor, runningLevel>>

\* onOptions={() => setScreen('options')}
OpenOptions ==
  /\ screen' = "options"
  /\ UNCHANGED <<gameProgress, options, runVars, lastResults, levelInProgress,
                 store, pending, completions, disturbances, lastIssued,
                 resetFor, runningLevel>>

\* onUpdateOptions
UpdateOptions(newOptions) ==
  /\ options' = newOptions
  /\ saveProgress([options |-> newOptions], "options")
  /\ UNCHANGED <<screen, gameProgress, runVars, lastResults, levelInProgress,
                 store, completions, resetFor, runningLevel>>

\* Back always leads to the squad selection
MissionBackToSquad ==
  /\ screen' = "wingmanChoice"
  /\ UNCHANGED <<gameProgress, options, runVars, lastResults, levelInProgress,
                 store, pending, completions, disturbances, lastIssued,
                 resetFor, runningLevel>>

\* MissionScreen onBack
MissionBack ==
  /\ screen' = IF Len(completedLevels) > 0 THEN "campaignChoice"
               ELSE "wingmanChoice"
  /\ UNCHANGED <<gameProgress, options, runVars, lastResults, levelInProgress,
                 store, pending, completions, disturbances, lastIssued,
                 resetFor, runningLevel>>

\* ------------------------------------------------------------------------
\* What the rendered screen lets the player do
\* ------------------------------------------------------------------------
MainMenuNewGame == Rendered /\ screen = "mainMenu" /\ handleNewGame
MainMenuContinue ==
  Rendered /\ screen = "mainMenu" /\ hasSaveData /\ handleContinue
MainMenuOptions == Rendered /\ screen = "mainMenu" /\ OpenOptions
OptionsChange ==
  /\ Rendered /\ screen = "options"
  /\ \E newOptions \in OptionValues \ {options} : UpdateOptions(newOptions)
OptionsBack == Rendered /\ screen = "options" /\ handleMainMenu
WingmanToggle ==
  /\ Rendered /\ screen = "wingmanChoice"
  /\ \E wingmanId \in Wingmen : handleToggle(wingmanId)
\* the Confirm Team button is never disabled
WingmanConfirmAnySize ==
  Rendered /\ screen = "wingmanChoice" /\ handleWingmenConfirm

WingmanConfirm ==
  /\ Rendered /\ screen = "wingmanChoice"
  /\ Len(selectedWingmen) = maxSelections
  /\ handleWingmenConfirm
MissionLaunch == Rendered /\ screen = "mission" /\ handleStartMission
MissionGoBack == Rendered /\ screen = "mission" /\ MissionBack
ResultsContinue == Rendered /\ screen = "results" /\ handleResultsContinue
\* every node of the map answers the click
CampaignSelectAnyNode ==
  /\ Rendered /\ screen = "campaignChoice"
  /\ \E levelId \in Levels : handleLevelSelect(levelId)

CampaignSelect ==
  /\ Rendered /\ screen = "campaignChoice"
  /\ \E levelId \in Range(getAvailableChoices) : handleLevelSelect(levelId)
CompleteNewGamePlus == Rendered /\ screen = "gameComplete" /\ handleNewGamePlus
CompleteMainMenu == Rendered /\ screen = "gameComplete" /\ handleMainMenu

\* the page is reloaded: the component is mounted again over the same store
Restart ==
  /\ screen' = "loading"
  /\ gameProgress' = Null
  /\ options' = DefaultOptions
  /\ selectedWingmen' = <<>>
  /\ currentLevel' = "1"
  /\ completedLevels' = <<>>
  /\ totalScore' = 0
  /\ lastResults' = Null
  /\ levelInProgress' = FALSE
  /\ runningLevel' = Null
  /\ pending' = SetToBag({LoadOp})
  /\ lastIssued' = Null
  /\ Disturb
  /\ UNCHANGED <<store, completions, resetFor>>

Next ==
  \/ LoadDone
  \/ LoadFail
  \/ \E op \in SaveOps : SaveDone(op)
  \/ \E op \in SaveOps : SaveFail(op)
  \/ ClearDone
  \/ ClearFail
  \/ \E outcome \in Outcomes : HostLevelComplete(outcome)
  \/ MainMenuNewGame
  \/ MainMenuContinue
  \/ MainMenuOptions
  \/ OptionsChange
  \/ OptionsBack
  \/ WingmanToggle
  \/ WingmanConfirm
  \/ MissionLaunch
  \/ MissionGoBack
  \/ ResultsContinue
  \/ CampaignSelect
  \/ CompleteNewGamePlus
  \/ CompleteMainMenu
  \/ Restart

Spec == Init /\ [][Next]_vars

\* The same machine in an undisturbed session: no reload, no store fault, a
\* host that reports only the level it was asked to run, and no store
\* operation started while another one is in flight.
Calm == UNCHANGED disturbances

NextQuiet ==
  \/ Calm /\ LoadDone
  \/ Calm /\ (\E op \in SaveOps : SaveDone(op))
  \/ Calm /\ ClearDone
  \/ Calm /\ (\E outcome \in Outcomes : HostLevelComplete(outcome))
  \/ Calm /\ MainMenuNewGame
  \/ Calm /\ MainMenuContinue
  \/ Calm /\ MainMenuOptions
  \/ Calm /\ OptionsChange
  \/ Calm /\ OptionsBack
  \/ Calm /\ WingmanToggle
  \/ Calm /\ WingmanConfirm
  \/ Calm /\ MissionLaunch
  \/ Calm /\ MissionGoBack
  \/ Calm /\ ResultsContinue
  \/ Calm /\ CampaignSelect
  \/ Calm /\ CompleteNewGamePlus
  \/ Calm /\ CompleteMainMenu

SpecQuiet == Init /\ [][NextQuiet]_vars

\* ------------------------------------------------------------------------
\* The persistence layer on its own: the exported saveGameProgress,
\* loadGameProgress and clearGameProgress called with records of any shape,
\* the mount effect that loads, and handleContinue that resumes
\* ------------------------------------------------------------------------
FullRecord ==
  [options |-> [difficulty |-> "hard"],
   currentLevel |-> "2a",
   completedLevels |-> <<"1">>,
   selectedWingmen |-> <<"falco", "peppy">>,
   totalScore |-> 1000,
   completedRuns |-> 1]

FreshRecord ==
  [options |-> DefaultOptions,
   currentLevel |-> "1",
   completedLevels |-> <<>>,
   selectedWingmen |-> <<"peppy", "slippy">>,
   totalScore |-> 0,
   completedRuns |-> 0]

RecordFields == DOMAIN FullRecord

Restrict(r, fields) == [f \in fields |-> r[f]]

\* records with every field, with one field missing, and with one field only
PartialRecords ==
  {Restrict(r, fields) :
     r \in {FullRecord, FreshRecord},
     fields \in {F \in SUBSET RecordFields :
                   Cardinality(F) \in {1, Cardinality(RecordFields) - 1,
                                       Cardinality(RecordFields)}}}

\* fields the record schema does not know
ExtraFields == {[id |-> "currentProgress"], [id |-> "slot2"], [legacy |-> TRUE]}

Records ==
  PartialRecords
    \cup {Spread(r, extra) : r \in {FullRecord, FreshRecord}, extra \in ExtraFields}

\* await saveGameProgress(record) resolved
ApiSave(record) ==
  /\ store' = StorePut(store, record)
  /\ UNCHANGED <<screen, gameProgress, options, runVars, lastResults,
                 levelInProgress, pending, completions, disturbances,
                 lastIssued, resetFor, runningLevel>>

\* await clearGameProgress() resolved
ApiClear ==
  /\ store' = StoreDelete(store)
  /\ UNCHANGED <<screen, gameProgress, options, runVars, lastResults,
                 levelInProgress, pending, completions, disturbances,
                 lastIssued, resetFor, runningLevel>>

\* handleContinue invoked from the main menu
InvokeContinue == Rendered /\ screen = "mainMenu" /\ handleContinue

NextStore ==
  \/ LoadDone
  \/ LoadFail
  \/ Restart
  \/ \E record \in Records : ApiSave(record)
  \/ ApiClear
  \/ InvokeContinue

SpecStore == Init /\ [][NextStore]_vars

\* the same, with every load that was started settling at some time
SpecStartup == SpecStore /\ WF_vars(LoadDone \/ LoadFail)

\* ------------------------------------------------------------------------
\* A session that starts over a record left in the store, by an earlier
\* session or by the host through the exported saveGameProgress, and resumes
\* it on the campaign map
\* ------------------------------------------------------------------------
SavedPaths == UNION {[1..n -> Levels] : n \in 1..MaxSavedPath}

SavedRecords ==
  {[FullRecord EXCEPT !.completedLevels = path, !.currentLevel = level] :
     path \in SavedPaths, level \in Levels}

InitSaved ==
  /\ screen = "loading"
  /\ gameProgress = Null
  /\ options = DefaultOptions
  /\ selectedWingmen = <<>>
  /\ currentLevel = "1"
  /\ completedLevels = <<>>
  /\ totalScore = 0
  /\ lastResults = Null
  /\ levelInProgress = FALSE
  /\ runningLevel = Null
  /\ \E record \in SavedRecords : store = StorePut(EmptyStore, record)
  /\ pending = SetToBag({LoadOp})
  /\ completions = 0
  /\ disturbances = 0
  /\ lastIssued = Null
  /\ resetFor = 0

NextSaved ==
  \/ LoadDone
  \/ MainMenuContinue
  \/ CampaignSelect
  \/ MissionGoBack
  \/ \E op \in SaveOps : SaveDone(op)

SpecSaved == InitSaved /\ [][NextSaved]_vars

\* ------------------------------------------------------------------------
\* An undisturbed session of a player who has completed the campaign before:
\* it starts over the record of a run that has reached the final mission
\* ------------------------------------------------------------------------
VeteranRecords ==
  {[options |-> DefaultOptions,
    currentLevel |-> "5",
    completedLevels |-> <<"1", "2a", "3", "4a">>,
    selectedWingmen |-> <<"falco", "peppy">>,
    totalScore |-> 4000,
    completedRuns |-> runs] : runs \in 0..MaxSavedRuns}

InitVeteran ==
  /\ screen = "loading"
  /\ gameProgress = Null
  /\ options = DefaultOptions
  /\ selectedWingmen = <<>>
  /\ currentLevel = "1"
  /\ completedLevels = <<>>
  /\ totalScore = 0
  /\ lastResults = Null
  /\ levelInProgress = FALSE
  /\ runningLevel = Null
  /\ \E record \in VeteranRecords : store = StorePut(EmptyStore, record)
  /\ pending = SetToBag({LoadOp})
  /\ completions = 0
  /\ disturbances = 0
  /\ lastIssued = Null
  /\ resetFor = 0

SpecVeteran == InitVeteran /\ [][NextQuiet]_vars

\* ------------------------------------------------------------------------
\* Properties of the campaign state machine
\* ------------------------------------------------------------------------
\* store.get('currentProgress')?.completedRuns, 0 when no record exists
storedRuns ==
  IF StoreGet(store) # Null /\ "completedRuns" \in DOMAIN StoreGet(store)
  THEN StoreGet(store).completedRuns ELSE 0

\* C1: completedLevels never holds a mission id twice, whatever outcomes are
\* reported and acknowledged (a second victorious report for a mission that is
\* already completed must change nothing).
C1_NoDuplicateCompletion ==
  \A i, j \in 1..Len(completedLevels) :
    i # j => completedLevels[i] # completedLevels[j]

\* C2: acknowledging a victorious outcome with score s on a non-final mission
\* m adds exactly s to totalScore, appends m as the last element of
\* completedLevels, leaves selectedWingmen and completedRuns alone and shows
\* the campaign map, never the game-complete screen.
C2_VictoryNonFinal ==
  [][(ResultsContinue /\ lastResults # Null /\ lastResults.completed
        /\ ~isFinal(currentLevel))
     => /\ totalScore' = totalScore + lastResults.score
        /\ Len(completedLevels') = Len(completedLevels) + 1
        /\ SubSeq(completedLevels', 1, Len(completedLevels)) = completedLevels
        /\ completedLevels'[Len(completedLevels')] = currentLevel
        /\ selectedWingmen' = selectedWingmen
        /\ completedRuns' = completedRuns
        /\ screen' = "campaignChoice"]_vars

C2_Witness ==
  /\ screen = "campaignChoice"
  /\ completedLevels = <<"1", "2b">>
  /\ currentLevel = "2b"
  /\ totalScore = 2000
  /\ Len(selectedWingmen) = 2

\* C3: a failed outcome, when reported and when acknowledged, leaves
\* totalScore, completedLevels, currentLevel, selectedWingmen and
\* completedRuns unchanged and starts no store operation; the retry shows the
\* briefing of the same mission.
C3_FailedOutcome ==
  [][/\ (\E outcome \in Outcomes : ~outcome.completed /\ HostLevelComplete(outcome))
        => /\ UNCHANGED <<totalScore, completedLevels, currentLevel,
                          selectedWingmen, store, pending>>
           /\ completedRuns' = completedRuns
     /\ (ResultsContinue /\ lastResults # Null /\ ~lastResults.completed)
        => /\ UNCHANGED <<totalScore, completedLevels, currentLevel,
                          selectedWingmen, store, pending>>
           /\ completedRuns' = completedRuns
           /\ screen' = "mission"]_vars

C3_Witness ==
  /\ screen = "mission"
  /\ lastResults # Null /\ ~lastResults.completed
  /\ currentLevel = "2a"
  /\ completedLevels = <<"1">>
  /\ totalScore = 1000

\* C4: every completion of the final mission is counted exactly once: once no
\* store operation is in flight, the completedRuns the system works with
\* equals the number of acknowledged victories on the final mission.
C4_CompletionCountedOnce ==
  (pending = EmptyBag) => completedRuns = completions

\* C5: completedRuns never decreases, neither the in-memory copy (outside of
\* a reload in progress) nor the value a load() would yield.
C5_RunsNeverDecrease ==
  [][/\ storedRuns' >= storedRuns
     /\ (screen # "loading" /\ screen' # "loading")
        => completedRuns' >= completedRuns]_vars

\* C6: New Game Plus keeps the persisted record, with its completedRuns and
\* options, and clears only its run-scoped fields; in memory the run is fresh
\* and the wingman selection is shown.
C6_NewGamePlusKeepsRecord ==
  [][(ClearDone /\ StoreGet(store) # Null)
     => /\ StoreGet(store') # Null
        /\ OrDefault(StoreGet(store'), "completedRuns", 0) = storedRuns
        /\ OrDefault(StoreGet(store'), "options", Null)
             = OrDefault(StoreGet(store), "options", Null)
        /\ selectedWingmen' = <<>> /\ currentLevel' = "1"
        /\ completedLevels' = <<>> /\ totalScore' = 0
        /\ screen' = "wingmanChoice"]_vars

\* C7: for the snapshot of confirmSquad, of an acknowledged victory and of
\* choosePath, the in-memory state after the write is the same whether the
\* write fails or succeeds; the write changes gameProgress only, so the two
\* outcomes agree exactly when they agree on completedRuns.
C7_FailedWriteSameState ==
  \A op \in SaveOps :
    op.by \in {"confirm", "victory", "final", "select"}
      => OrDefault(op.progress, "completedRuns", 0) = completedRuns

\* C8: Continue derives its screen from the record alone, most advanced
\* first: a non-empty completedLevels shows the campaign map; otherwise a
\* non-empty selectedWingmen shows the briefing; otherwise the wingman
\* selection; nothing else.
C8_ResumeDestination ==
  [][InvokeContinue
     => screen' =
          IF "completedLevels" \in DOMAIN gameProgress
             /\ gameProgress.completedLevels # <<>>
          THEN "campaignChoice"
          ELSE IF "selectedWingmen" \in DOMAIN gameProgress
                  /\ gameProgress.selectedWingmen # <<>>
               THEN "mission"
               ELSE "wingmanChoice"]_vars

C8_Witness ==
  \/ /\ screen = "campaignChoice"
     /\ completedLevels = <<"1">> /\ selectedWingmen = <<>>
     /\ "selectedWingmen" \notin DOMAIN gameProgress
  \/ /\ screen = "mission"
     /\ completedLevels = <<>> /\ selectedWingmen = <<"falco", "peppy">>
     /\ "completedLevels" \notin DOMAIN gameProgress

\* C9: what was stored survives a reload: the load puts the stored record in
\* memory, and Continue makes selectedWingmen, currentLevel, completedLevels
\* and totalScore equal to the record's fields, a missing field giving the
\* empty squad, mission '1', the empty path and score 0.
C9_ProgressSurvivesRestart ==
  [][/\ (LoadDone /\ StoreGet(store) # Null) => gameProgress' = StoreGet(store)
     /\ InvokeContinue
        => LET FieldOr(field, dflt) ==
                 IF field \in DOMAIN gameProgress
                 THEN gameProgress[field] ELSE dflt
           IN /\ selectedWingmen' = FieldOr("selectedWingmen", <<>>)
              /\ currentLevel' = FieldOr("currentLevel", "1")
              /\ completedLevels' = FieldOr("completedLevels", <<>>)
              /\ totalScore' = FieldOr("totalScore", 0)]_vars

C9_Witness ==
  /\ screen = "campaignChoice"
  /\ disturbances = 1
  /\ gameProgress = StoreGet(store)
  /\ "currentLevel" \notin DOMAIN gameProgress
  /\ currentLevel = "1"
  /\ completedLevels = <<"1">>
  /\ selectedWingmen = <<"falco", "peppy">>
  /\ totalScore = 1000

\* C10: store round trip: right after save(r), load() returns a record that
\* has every field of r with r's value.
C10_StoreRoundTrip ==
  [][\A record \in Records :
       ApiSave(record)
         => /\ StoreGet(store') # Null
            /\ \A f \in DOMAIN record :
                 /\ f \in DOMAIN StoreGet(store')
                 /\ StoreGet(store')[f] = record[f]]_vars

\* C11: the store holds at most one record, under the key 'currentProgress':
\* after every step no other key holds a record, a save leaves exactly the
\* saved record under that key, and a clear leaves the store empty.
C11_SingleSlot ==
  [][/\ \A k \in Keys \ {"currentProgress"} : store'[k] = Null
     /\ \A record \in Records :
          ApiSave(record) => StoreGet(store') = PutObject(record)
     /\ ApiClear => \A k \in Keys : store'[k] = Null]_vars

\* C12: getAvailableChoices is <<'1'>> for an empty completedLevels and
\* otherwise the nextChoices of the last completed mission, in their
\* configured order, without the missions already completed; after '1' it is
\* <<'2a','2b'>> and after '1','2a' it is <<'3'>>.
C12_AvailableChoices ==
  /\ getAvailableChoices =
       IF completedLevels = <<>> THEN <<"1">>
       ELSE SelectSeq(nextChoices(completedLevels[Len(completedLevels)]),
                      LAMBDA id : \A i \in 1..Len(completedLevels) :
                                    completedLevels[i] # id)
  /\ completedLevels = <<"1">> => getAvailableChoices = <<"2a", "2b">>
  /\ completedLevels = <<"1", "2a">> => getAvailableChoices = <<"3">>

C12_Witness ==
  /\ completedLevels = <<"1", "2a", "1">>
  /\ getAvailableChoices = <<"2b">>
  /\ screen = "mission"
  /\ currentLevel = "2b"
  /\ StoreGet(store).currentLevel = "5"

\* C13: a level chosen on the campaign map is a successor of the last
\* completed mission and is not completed yet; the choice sets currentLevel
\* to it, leaves completedLevels and totalScore alone and shows the briefing.
C13_LegalChoice ==
  [][CampaignSelect
     => /\ completedLevels # <<>>
        /\ \E i \in 1..Len(nextChoices(completedLevels[Len(completedLevels)])) :
             currentLevel' = nextChoices(completedLevels[Len(completedLevels)])[i]
        /\ \A i \in 1..Len(completedLevels) : completedLevels[i] # currentLevel'
        /\ UNCHANGED <<completedLevels, totalScore>>
        /\ screen' = "mission"]_vars

C13_Witness ==
  /\ screen = "mission"
  /\ completedLevels = <<"1", "2b", "3">>
  /\ currentLevel = "4b"
  /\ \E op \in SaveOps : op.by = "select" /\ op.progress.currentLevel = "4b"
  /\ gameProgress.currentLevel = "2a"

\* C14: the squad is confirmed, and the briefing shown, only with exactly 2
\* wingmen selected; on the wingman screen with any other number selected no
\* step shows the briefing and no step starts a write of a confirmed squad.
C14_ConfirmNeedsFullSquad ==
  [][/\ WingmanConfirm
        => /\ Len(selectedWingmen) = 2
           /\ selectedWingmen[1] # selectedWingmen[2]
           /\ \A i \in 1..2 : selectedWingmen[i] \in Wingmen
           /\ screen' = "mission"
     /\ (screen = "wingmanChoice" /\ Len(selectedWingmen) # 2)
        => /\ screen' # "mission"
           /\ \A op \in BagToSet(pending') :
                (op.kind = "save" /\ op.by = "confirm")
                  => CopiesIn(op, pending') <= CopiesIn(op, pending)]_vars

C14_Witness ==
  /\ screen = "mission"
  /\ selectedWingmen = <<"slippy", "falco">>
  /\ completedLevels = <<>>
  /\ \E op \in SaveOps :
       op.by = "confirm" /\ op.progress.selectedWingmen = <<"slippy", "falco">>

\* C15: selectedWingmen always holds at most 2 distinct wingmen of the
\* roster, and exactly 2 whenever the briefing is shown or a mission is being
\* played.
C15_SquadSize ==
  /\ Len(selectedWingmen) <= 2
  /\ \A i \in 1..Len(selectedWingmen) : selectedWingmen[i] \in Wingmen
  /\ \A i, j \in 1..Len(selectedWingmen) :
       i # j => selectedWingmen[i] # selectedWingmen[j]
  /\ screen \in {"mission", "playing"} => Len(selectedWingmen) = 2

\* C16: currentLevel is a level of the campaign, and completedLevels is a
\* chain: it starts with the entry mission '1' and every later element is one
\* of the nextChoices of the element before it.
C16_PathIsChain ==
  /\ currentLevel \in Levels
  /\ completedLevels # <<>> => completedLevels[1] = "1"
  /\ \A i \in 1..(Len(completedLevels) - 1) :
       \E j \in 1..Len(nextChoices(completedLevels[i])) :
         nextChoices(completedLevels[i])[j] = completedLevels[i + 1]

\* C17: New Game, from any run state, empties selectedWingmen and
\* completedLevels, sets currentLevel to '1' and totalScore to 0, leaves
\* completedRuns, options and the store alone and shows the wingman
\* selection.
C17_NewGameResets ==
  [][MainMenuNewGame
     => /\ selectedWingmen' = <<>>
        /\ currentLevel' = "1"
        /\ completedLevels' = <<>>
        /\ totalScore' = 0
        /\ completedRuns' = completedRuns
        /\ UNCHANGED <<options, store, pending>>
        /\ screen' = "wingmanChoice"]_vars

C17_Witness ==
  /\ screen = "wingmanChoice"
  /\ selectedWingmen = <<>> /\ completedLevels = <<>>
  /\ currentLevel = "1" /\ totalScore = 0
  /\ completedRuns = 1
  /\ StoreGet(store) # Null
  /\ StoreGet(store).totalScore = 5000
  /\ resetFor = 0
  /\ disturbances = 0

C19_TransitionsAtomic ==
  [][/\ CompleteNewGamePlus
        => /\ screen' = "wingmanChoice"
           /\ selectedWingmen' = <<>> /\ currentLevel' = "1"
           /\ completedLevels' = <<>> /\ totalScore' = 0
     /\ (ClearOp \in PendingOps /\ <<screen, runVars>>' # <<screen, runVars>>)
        => ClearDone]_vars

C21_ResetDespiteFailure ==
  [][ClearFail
     => /\ selectedWingmen' = <<>>
        /\ currentLevel' = "1"
        /\ completedLevels' = <<>>
        /\ totalScore' = 0
        /\ screen' = "wingmanChoice"]_vars

\* C22: start-up always leaves the loading screen: a load that returns a
\* record, returns none or fails ends on the main menu, and every loading
\* screen is followed by the main menu; a failed load leaves no record in
\* memory, Continue unavailable and the options at their defaults.
C22_StartupLeavesLoading ==
  /\ [][/\ (LoadDone \/ LoadFail) => screen' = "mainMenu"
        /\ LoadFail => /\ gameProgress' = Null
                       /\ ~hasSaveData'
                       /\ options' = DefaultOptions]_vars
  /\ (screen = "loading") ~> (screen = "mainMenu")

C22_Witness ==
  /\ screen = "mainMenu"
  /\ pending = EmptyBag
  /\ disturbances = 1
  /\ StoreGet(store) # Null
  /\ StoreGet(store).options # DefaultOptions
  /\ gameProgress = Null
  /\ options = DefaultOptions

\* C23: a failed write needs no retry: a snapshot started when no write is in
\* flight, before any New Game+ reset of the last completion, carries the
\* in-memory squad, mission, path and score and a completedRuns equal to the
\* number of completions acknowledged so far, so that its write stores
\* everything an earlier failed write has lost.
C23_NextWriteSupersedes ==
  [][(pending = EmptyBag /\ resetFor < completions)
     => \A op \in BagToSet(pending') :
          op.kind = "save"
            => /\ op.progress.selectedWingmen = selectedWingmen'
               /\ op.progress.completedLevels = completedLevels'
               /\ op.progress.totalScore = totalScore'
               /\ op.by # "final" => op.progress.currentLevel = currentLevel'
               /\ op.progress.completedRuns = completions']_vars

\* C24: the campaign graph is well formed: every nextChoices entry is a
\* level, every level is reachable from '1', no level is reachable from
\* itself, '1' is the only level without a predecessor, and a level is final
\* exactly when it has no nextChoices; the mission of the run is one of the
\* levels reachable from '1'.
C24_GraphWellFormed ==
  LET Succ(l) == {nextChoices(l)[i] : i \in 1..Len(nextChoices(l))}
      RECURSIVE Reach(_, _)
      Reach(S, n) ==
        IF n = 0 THEN S
        ELSE Reach(S \cup UNION {Succ(l) : l \in S}, n - 1)
  IN /\ \A l \in Levels : Succ(l) \subseteq Levels
     /\ Reach({"1"}, Cardinality(Levels)) = Levels
     /\ \A l \in Levels : l \notin Reach(Succ(l), Cardinality(Levels))
     /\ {l \in Levels : \A m \in Levels : l \notin Succ(m)} = {"1"}
     /\ \A l \in Levels : isFinal(l) <=> nextChoices(l) = <<>>
     /\ currentLevel \in Reach({"1"}, Cardinality(Levels))

C24_Witness ==
  /\ screen = "gameComplete"
  /\ completedLevels = <<"1", "2b", "3", "4a", "5">>
  /\ isFinal(currentLevel)

\* C25: the connections drawn on the campaign map are exactly the pairs
\* (m, n) with n one of the nextChoices of m, each listed once; so every
\* mission offered after a completed one has its path from that one drawn.
C25_ConnectionsMirrorChoices ==
  /\ {<<connections[i].from, connections[i].to>> : i \in 1..Len(connections)}
       = {e \in Levels \X Levels :
            \E i \in 1..Len(nextChoices(e[1])) : nextChoices(e[1])[i] = e[2]}
  /\ \A i, j \in 1..Len(connections) :
       i # j => connections[i] # connections[j]
  /\ completedLevels # <<>>
       => \A k \in 1..Len(getAvailableChoices) :
            \E i \in 1..Len(connections) :
              /\ connections[i].from = completedLevels[Len(completedLevels)]
              /\ connections[i].to = getAvailableChoices[k]

C25_Witness ==
  /\ screen = "campaignChoice"
  /\ completedLevels = <<"1", "2a", "3">>
  /\ getAvailableChoices = <<"4a", "4b">>

\* C26: unlock policy. For every number n >= 0 of completed runs the
\* unlocks through n are exactly the configured tiers 1..5 that are <= n, in
\* tier order (none for n = 0, all five for n >= 5), and the newly unlocked
\* tier is n when 1 <= n <= 5 and none otherwise; the game-complete screen of
\* a player with n >= 1 recorded runs presents exactly these.
C26_UnlockPolicy ==
  LET Policy(n) ==
        /\ {unlocks(n)[i] : i \in DOMAIN unlocks(n)}
             = {t \in 1..5 : t <= n}
        /\ \A i, j \in DOMAIN unlocks(n) :
             i < j => unlocks(n)[i] < unlocks(n)[j]
        /\ (n = 0) => unlocks(n) = <<>>
        /\ (n >= 5) => unlocks(n) = <<1, 2, 3, 4, 5>>
        /\ newUnlock(n) = IF 1 <= n /\ n <= 5 THEN <<n>> ELSE <<>>
  IN  /\ \A n \in 0..(MaxSavedRuns + 1) : Policy(n)
      /\ (screen = "gameComplete" /\ completedRuns >= 1)
           => /\ newGamePlusLevel = completedRuns
              /\ Policy(newGamePlusLevel)

\* the game-complete screen of a player past the last configured tier:
\* all five unlocks are listed and nothing is newly unlocked
C26_Witness ==
  /\ screen = "gameComplete"
  /\ completedRuns = MaxSavedRuns + 1
  /\ unlocks(newGamePlusLevel) = <<1, 2, 3, 4, 5>>
  /\ newUnlock(newGamePlusLevel) = <<>>

\* C27: on entering the game-complete screen after the k-th completion of
\* the campaign, the tier presented as newly unlocked is tier k (for k <= 5)
\* and the presented list of unlocks includes tier k, also while the write of
\* the completion's snapshot is in flight; and what is presented does not
\* change for as long as the screen stays up.
C27_UnlockPresented ==
  [][/\ (screen = "results" /\ screen' = "gameComplete")
          => LET k == completedRuns + 1
                 list == unlocks(newGamePlusLevel)'
             IN  k <= 5 => /\ newUnlock(newGamePlusLevel)' = <<k>>
                           /\ \E i \in DOMAIN list : list[i] = k
     /\ (screen = "gameComplete" /\ screen' = "gameComplete")
          => /\ newUnlock(newGamePlusLevel)' = newUnlock(newGamePlusLevel)
             /\ unlocks(newGamePlusLevel)' = unlocks(newGamePlusLevel)]_vars

\* C28: launching the mission changes no field of the run (squad, current
\* level, completed path, score) and starts no store operation; it hands the
\* host the current level with the current squad, options and completed path
\* and shows 'playing'; and from then until an outcome is reported the run is
\* left alone (once start-up is over): no run field changes, no store
\* operation is started, and 'playing' is left only for 'results' (a reload
\* of the page, which ends the session, aside).
C28_LaunchHandsOver ==
  [][/\ MissionLaunch
          => /\ UNCHANGED <<runVars, options, gameProgress, store, pending>>
             /\ runningLevel' = [levelId |-> currentLevel,
                                 wingmen |-> selectedWingmen,
                                 options |-> options,
                                 completedLevels |-> completedLevels]
             /\ screen' = "playing"
     /\ (screen = "playing" /\ LoadOp \notin PendingOps /\ ~Restart)
          => /\ UNCHANGED runVars
             /\ \A op \in BagToSet(pending') :
                  CopiesIn(op, pending') <= CopiesIn(op, pending)
             /\ screen' \in {"playing", "results"}
             /\ (screen' = "results") => (runningLevel' = Null)]_vars

\* C29: options persist across sessions. A successful write of an options
\* change stores the changed options, and loading at start-up takes the
\* stored options; the options in memory are changed by nothing but an
\* options change and the start-up load, in particular not by New Game, New
\* Game+ or the mission transitions; and once the writes have settled, options
\* the player has changed are the options the store holds for the next
\* session.
C29_OptionsPersist ==
  /\ [][/\ \A op \in SaveOps :
             (SaveDone(op) /\ op.by = "options")
               => /\ StoreGet(store') # Null
                  /\ StoreGet(store').options = op.progress.options
        /\ (LoadDone /\ StoreGet(store) # Null)
             => options' = StoreGet(store).options
        /\ (options' # options) => (OptionsChange \/ LoadDone \/ Restart)]_vars
  /\ []((pending = EmptyBag /\ screen # "loading"
          /\ options # DefaultOptions)
          => /\ StoreGet(store) # Null
             /\ StoreGet(store).options = options)

\* C30: a successful write of an options change leaves the squad, current
\* level, completed path, score and completedRuns of the stored record as
\* they were before the write, also when the stored run has not been resumed
\* in this session; a stored run that could be continued before can still be
\* continued afterwards.
C30_OptionsChangeKeepsRun ==
  [][\A op \in SaveOps :
       (SaveDone(op) /\ op.by = "options" /\ StoreGet(store) # Null)
         => LET before == StoreGet(store)
                after == StoreGet(store')
            IN  /\ after.selectedWingmen = before.selectedWingmen
                /\ after.currentLevel = before.currentLevel
                /\ after.completedLevels = before.completedLevels
                /\ after.totalScore = before.totalScore
                /\ after.completedRuns = before.completedRuns
                /\ (Len(before.selectedWingmen) > 0) => hasSaveData']_vars

\* C31: the campaign map never dead-ends. Whenever the screen is
\* 'campaignChoice', however it was reached (an acknowledged victory, Back
\* from the mission briefing, or Continue over a record the menu itself
\* wrote), getAvailableChoices is not empty, so that some level can be
\* selected.
C31_MapNeverDeadEnds ==
  (screen = "campaignChoice")
    => /\ getAvailableChoices # <<>>
       /\ Rendered => ENABLED CampaignSelect

\* C32: the results screen is entered only from 'playing'. An outcome the
\* host supplies while the menu shows another screen (main menu, options,
\* squad selection, briefing, campaign map, game complete) changes neither the
\* screen nor the squad, current level, completed path or score.
C32_ResultsOnlyFromPlaying ==
  [][(screen \in {"mainMenu", "options", "wingmanChoice", "mission",
                  "campaignChoice", "gameComplete"})
       => /\ screen' # "results"
          /\ \A outcome \in Outcomes :
               HostLevelComplete(outcome) => UNCHANGED <<screen, runVars>>]_vars

\* C33: totalScore is always a non-negative integer, and it is the sum of the
\* scores of the victories acknowledged since the last reset or resumption:
\* acknowledging a victory adds exactly the score of the outcome,
\* acknowledging a failure (retry) adds nothing, New Game and the New Game+
\* reset set it to 0, Continue sets it to the score of the loaded record, and
\* nothing else changes it within a session.
C33_ScoreIsSumOfVictories ==
  /\ [](totalScore \in Nat)
  /\ [][/\ (ResultsContinue /\ resultCompleted)
             => totalScore' = totalScore + lastResults.score
        /\ (ResultsContinue /\ ~resultCompleted) => totalScore' = totalScore
        /\ (MainMenuNewGame \/ ClearDone) => totalScore' = 0
        /\ MainMenuContinue => totalScore' = gameProgress.totalScore
        /\ (totalScore' # totalScore)
             => \/ ResultsContinue /\ resultCompleted
                \/ MainMenuNewGame
                \/ ClearDone
                \/ MainMenuContinue
                \/ Restart]_vars

\* two victories and nothing else have been acknowledged in this run
C33_Witness ==
  /\ screen = "campaignChoice"
  /\ completedLevels = <<"1", "2b">>
  /\ totalScore = 2000
  /\ lastResults = [completed |-> TRUE, score |-> 1000]

\* C34: a run ends on the game-complete screen after exactly five victories:
\* completedLevels never grows beyond length 5, and whenever the screen is
\* 'gameComplete' it has length 5, begins with '1' and ends with '5'.
C34_RunEndsAfterFive ==
  /\ Len(completedLevels) <= 5
  /\ (screen = "gameComplete")
       => /\ Len(completedLevels) = 5
          /\ completedLevels[1] = "1"
          /\ completedLevels[5] = "5"

\* C35: Back on the mission briefing shows the campaign map when
\* completedLevels is not empty and the squad selection when it is empty; it
\* changes neither the squad, the current level, the completed path nor the
\* score, and starts no store operation.
C35_BackFromBriefing ==
  [][MissionGoBack
       => /\ screen = "mission"
          /\ (completedLevels # <<>>) => screen' = "campaignChoice"
          /\ (completedLevels = <<>>) => screen' = "wingmanChoice"
          /\ UNCHANGED <<runVars, gameProgress, options, store, pending>>]_vars

\* the player is back on the campaign map with the level they had selected
\* still current
C35_Witness ==
  /\ screen = "campaignChoice"
  /\ completedLevels = <<"1">>
  /\ currentLevel = "2a"
  /\ pending = EmptyBag
  /\ StoreGet(store) # Null
  /\ StoreGet(store).currentLevel = "2a"

\* C36: Continue without a save does nothing. When no record was loaded
\* (none stored, or the load failed), invoking handleContinue changes neither
\* the screen nor the squad, current level, completed path or score; and the
\* main menu offers Continue only when the loaded record has a non-empty
\* selectedWingmen.
C36_ContinueWithoutSave ==
  /\ [][(gameProgress = Null /\ InvokeContinue)
          => UNCHANGED <<screen, runVars, gameProgress>>]_vars
  /\ []((ENABLED MainMenuContinue)
          => /\ gameProgress # Null
             /\ "selectedWingmen" \in DOMAIN gameProgress
             /\ Len(gameProgress.selectedWingmen) > 0)

\* the main menu after a failed load, with a record in the store that was
\* not loaded: Continue has nothing to resume
C36_Witness ==
  /\ screen = "mainMenu"
  /\ gameProgress = Null
  /\ pending = EmptyBag
  /\ StoreGet(store) # Null
  /\ ~ENABLED MainMenuContinue
  /\ ENABLED InvokeContinue
====
